---------------------------- MODULE Spec2Model ----------------------------
(***************************************************************************)
(* A model of xla/service/gpu/ir_emission_utils.cc: the GEMM / cuDNN       *)
(* dispatch classifiers, the reduction-to-vector validator, the device     *)
(* call, printf and full-warp shuffle-down emitters and the block-0        *)
(* thread-0 predicate; and of the TensorSliceDataset iterator as           *)
(* core/kernels/data/tensor_slice_dataset_op_test.cc drives it.            *)
(*                                                                         *)
(* Shapes are records [element_type, dimensions, layout]; dimension        *)
(* numbers are 0-based as in the source, so dimension d of a shape is      *)
(* shape.dimensions[d + 1].  A call that runs into a failed CHECK ends in  *)
(* pc = "aborted" and produces no return value.                            *)
(***************************************************************************)
EXTENDS Integers, Sequences, FiniteSets, TLC

VARIABLES
    gemm_args,  \* arguments of a direct AreValidGemmShapes evaluation
    hlo,        \* the HloInstruction handed to a classifier
    pc,         \* "idle" | "loop" | "returned" | "aborted"
    fn,         \* name of the function the last call entered
    ret,        \* the value that call returned
    value,      \* shuffle: per-lane bit pattern of the llvm::Value `value`
    value_type, \* shuffle: the LLVM type of `value`: [kind, bit_width]
    offset,     \* shuffle: the lane offset operand
    x,          \* shuffle: per-lane content of the <N x i32> vector `x`
    i,          \* shuffle: the loop counter of the segment loop
    calls,      \* call instructions emitted so far, in program order
    module,     \* function declarations held by the llvm::Module
    requests,   \* device calls: the EmitDeviceFunctionCall invocations made
    fmt,        \* printf: the format string
    arguments,  \* printf: the llvm::Value arguments, [id, type] each
    insts,      \* printf: instructions the builder inserted, in order
    grid,       \* launch grid: [threads_per_block, num_blocks]
    lane_pred,  \* launch grid: what the emitted predicate gave per lane
    tensors,    \* dataset: the components of the TensorSliceDataset
    iterator,   \* dataset: the iterator's state, [i]
    out_tensors,      \* dataset: the caller's out_tensors vector
    end_of_sequence,  \* dataset: the caller's end_of_sequence flag
    writer,     \* dataset: the key-value pairs the last Save wrote
    log         \* dataset: what every GetNext call handed back, in order

classifyVars == <<hlo>>
shuffleVars == <<value, value_type, offset, x, i, calls, module>>
emitVars == <<requests, fmt, arguments, insts>>
gridVars == <<grid, lane_pred>>
iteratorVars == <<tensors, iterator, out_tensors, end_of_sequence, writer,
                  log>>
otherVars == <<emitVars, gridVars, iteratorVars>>

vars == <<gemm_args, hlo, pc, fn, ret, shuffleVars, otherVars>>

-----------------------------------------------------------------------------
(* Bounds of the model.                                                    *)

\* largest rank of a shape handed to AreValidGemmShapes directly
MaxRank == 3
\* largest batch_dimensions_size handed to AreValidGemmShapes directly
MaxBatch == 1
\* largest number of leading batch dimensions of a dot node
MaxDotBatch == 1
\* largest rank of the input of a reduce node
MaxReduceRank == 3
\* number of lanes of the group that executes the emitted shuffle
GroupSize == 3
\* number of distinct generated bit patterns a lane may hold (besides the
\* all-ones pattern)
NumSeeds == 1

\* largest number of EmitDeviceFunctionCall invocations on one module
MaxDeviceCalls == 2
\* largest number of arguments handed to EmitPrintf
MaxPrintfArgs == 2
\* largest number of components of a tensor-slice dataset, largest size
\* of their first dimension, and number of GetNext calls made past the end
MaxComponents == 2
MaxSlices == 2
MaxCallsPastEnd == 2
\* largest number of threads per block and of blocks of a launch grid
MaxThreads == 3
MaxBlocks == 3

-----------------------------------------------------------------------------
(* Shapes.                                                                 *)

\* PrimitiveType values that occur as element types in the model.
GemmTypes == {"F16", "F32", "F64", "C64", "C128"}
OtherTypes == {"S32", "BF16"}
PrimitiveTypes == GemmTypes \cup OtherTypes

\* Dimension extents drawn for shapes: a zero extent and two distinct
\* non-zero extents.
Extents == {0, 2, 3}

SeqsUpTo(S, n) == UNION {[1..k -> S] : k \in 0..n}

\* The default (major-to-minor) layout of a rank-n array: minor_to_major =
\* {n-1, ..., 1, 0}.
DefaultLayout(n) == [minor_to_major |-> [k \in 1..n |-> n - k]]

MakeShape(element_type, dimensions) ==
    [element_type |-> element_type,
     dimensions   |-> dimensions,
     layout       |-> DefaultLayout(Len(dimensions))]

RECURSIVE ElementsIn(_)
ElementsIn(dimensions) ==
    IF dimensions = <<>> THEN 1
    ELSE Head(dimensions) * ElementsIn(Tail(dimensions))

\* ShapeUtil::IsZeroElementArray: an array shape holding no element.
IsZeroElementArray(shape) == ElementsIn(shape.dimensions) = 0

-----------------------------------------------------------------------------
(* GEMM eligibility of a shape triple.                                     *)

IsRank2(shape, batch_dimensions_size) ==
    Len(shape.dimensions) = batch_dimensions_size + 2

AreValidGemmShapes_NoOutputRank(lhs_shape, rhs_shape, output_shape, batch_dimensions_size) ==
    LET output_primitive_type == output_shape.element_type
        type_is_allowed ==
            \/ output_primitive_type = "F16" \/ output_primitive_type = "F32"
            \/ output_primitive_type = "F64" \/ output_primitive_type = "C64"
            \/ output_primitive_type = "C128"
    IN  /\ type_is_allowed
        /\ IsRank2(lhs_shape, batch_dimensions_size)
        /\ IsRank2(rhs_shape, batch_dimensions_size)
        /\ ~IsZeroElementArray(lhs_shape)
        /\ ~IsZeroElementArray(rhs_shape)

AreValidGemmShapes(lhs_shape, rhs_shape, output_shape, batch_dimensions_size) ==
    LET output_primitive_type == output_shape.element_type
        type_is_allowed ==
            \/ output_primitive_type = "F16" \/ output_primitive_type = "F32"
            \/ output_primitive_type = "F64" \/ output_primitive_type = "C64"
            \/ output_primitive_type = "C128"
    IN  /\ type_is_allowed
        /\ IsRank2(lhs_shape, batch_dimensions_size)
        /\ IsRank2(rhs_shape, batch_dimensions_size)
        /\ IsRank2(output_shape, batch_dimensions_size)
        /\ ~IsZeroElementArray(lhs_shape)
        /\ ~IsZeroElementArray(rhs_shape)

-----------------------------------------------------------------------------
(* Values the variables hold while a component is not in use.              *)

NoArgs == [lhs_shape |-> MakeShape("F32", <<>>),
           rhs_shape |-> MakeShape("F32", <<>>),
           output_shape |-> MakeShape("F32", <<>>),
           batch_dimensions_size |-> 0]
NoNode == [opcode |-> "kParameter", shape |-> MakeShape("F32", <<>>)]

ShuffleIdle ==
    /\ value = <<>>
    /\ value_type = [kind |-> "void", bit_width |-> 0]
    /\ offset = 0
    /\ x = <<>>
    /\ i = 0
    /\ calls = <<>>
    /\ module = {}

EmitIdle ==
    /\ requests = <<>>
    /\ fmt = ""
    /\ arguments = <<>>
    /\ insts = <<>>

GridIdle ==
    /\ grid = [threads_per_block |-> 0, num_blocks |-> 0]
    /\ lane_pred = <<>>

IteratorIdle ==
    /\ tensors = <<>>
    /\ iterator = [i |-> 0]
    /\ out_tensors = <<>>
    /\ end_of_sequence = FALSE
    /\ writer = {}
    /\ log = <<>>

OthersIdle == EmitIdle /\ GridIdle /\ IteratorIdle

-----------------------------------------------------------------------------
(* Direct evaluation of AreValidGemmShapes on a shape triple.              *)

\* Operand shapes of rank 0..MaxRank over extents {0, 2}; output shapes of
\* rank 0..MaxRank whose extents are all 0 or all 2.  The element type of
\* the operands is the element type of the output.
GemmDims == SeqsUpTo({0, 2}, MaxRank)
GemmOutputDims == {[k \in 1..n |-> e] : n \in 0..MaxRank, e \in {0, 2}}

InitGemmShapes ==
    /\ \E t \in PrimitiveTypes, l \in GemmDims, r \in GemmDims,
          o \in GemmOutputDims, b \in 0..MaxBatch :
          gemm_args = [lhs_shape |-> MakeShape(t, l),
                       rhs_shape |-> MakeShape(t, r),
                       output_shape |-> MakeShape(t, o),
                       batch_dimensions_size |-> b]
    /\ hlo = NoNode
    /\ pc = "idle"
    /\ fn = ""
    /\ ret = FALSE
    /\ ShuffleIdle
    /\ OthersIdle

CallAreValidGemmShapes ==
    /\ pc = "idle"
    /\ pc' = "returned"
    /\ fn' = "AreValidGemmShapes"
    /\ ret' = AreValidGemmShapes(gemm_args.lhs_shape, gemm_args.rhs_shape,
                                 gemm_args.output_shape,
                                 gemm_args.batch_dimensions_size)
    /\ UNCHANGED <<gemm_args, classifyVars, shuffleVars, otherVars>>

NextGemmShapes == CallAreValidGemmShapes

SpecGemmShapes == InitGemmShapes /\ [][NextGemmShapes]_vars


-----------------------------------------------------------------------------
(* Outcome of a call that may run into a failed CHECK.                     *)

CheckFailed == [aborted |-> TRUE]
Returned(v) == [aborted |-> FALSE, value |-> v]

-----------------------------------------------------------------------------
(* GEMM classification of dot and fusion nodes.                            *)

DotImplementedAsGemm_LhsTwice(dot) ==
    IF dot.opcode # "kDot" THEN CheckFailed
    ELSE
    LET lhs_shape == dot.operands[1].shape
        rhs_shape == dot.operands[2].shape
        dim_numbers == dot.dot_dimension_numbers
    IN  IF AreValidGemmShapes(lhs_shape, lhs_shape, dot.shape,
                              Len(dim_numbers.lhs_batch_dimensions))
        THEN IF lhs_shape.dimensions[
                    dim_numbers.lhs_contracting_dimensions[1] + 1]
                = rhs_shape.dimensions[
                    dim_numbers.rhs_contracting_dimensions[1] + 1]
             THEN Returned(TRUE)
             ELSE CheckFailed
        ELSE Returned(FALSE)

DotImplementedAsGemm_CheckFirst(dot) ==
    IF dot.opcode # "kDot" THEN CheckFailed
    ELSE
    LET lhs_shape == dot.operands[1].shape
        rhs_shape == dot.operands[2].shape
        dim_numbers == dot.dot_dimension_numbers
    IN  IF lhs_shape.dimensions[
               dim_numbers.lhs_contracting_dimensions[1] + 1]
           # rhs_shape.dimensions[
               dim_numbers.rhs_contracting_dimensions[1] + 1]
        THEN CheckFailed
        ELSE Returned(AreValidGemmShapes(
                          lhs_shape, rhs_shape, dot.shape,
                          Len(dim_numbers.lhs_batch_dimensions)))

DotImplementedAsGemm_NoCheck(dot) ==
    IF dot.opcode # "kDot" THEN CheckFailed
    ELSE
    LET lhs_shape == dot.operands[1].shape
        rhs_shape == dot.operands[2].shape
        dim_numbers == dot.dot_dimension_numbers
    IN  Returned(AreValidGemmShapes(lhs_shape, rhs_shape, dot.shape,
                                    Len(dim_numbers.lhs_batch_dimensions)))

DotImplementedAsGemm(dot) ==
    IF dot.opcode # "kDot" THEN CheckFailed
    ELSE
    LET lhs_shape == dot.operands[1].shape
        rhs_shape == dot.operands[2].shape
        dim_numbers == dot.dot_dimension_numbers
    IN  IF AreValidGemmShapes(lhs_shape, rhs_shape, dot.shape,
                              Len(dim_numbers.lhs_batch_dimensions))
        THEN IF lhs_shape.dimensions[
                    dim_numbers.lhs_contracting_dimensions[1] + 1]
                = rhs_shape.dimensions[
                    dim_numbers.rhs_contracting_dimensions[1] + 1]
             THEN Returned(TRUE)
             ELSE CheckFailed
        ELSE Returned(FALSE)

ImplementedAsGemm_AnyFusionKind(h) ==
    IF h.opcode = "kDot" THEN DotImplementedAsGemm(h)
    ELSE IF /\ h.opcode = "kFusion"
            /\ \/ h.fused_expression_root.opcode = "kMultiply"
               \/ h.fused_expression_root.opcode = "kAdd"
    THEN LET op0 == h.fused_expression_root.operands[1]
             dot == IF op0.opcode # "kDot"
                    THEN h.fused_expression_root.operands[2]
                    ELSE op0
         IN  IF dot.opcode = "kDot" THEN DotImplementedAsGemm(dot)
             ELSE Returned(FALSE)
    ELSE Returned(FALSE)

ImplementedAsGemm_Operand1First(h) ==
    IF h.opcode = "kDot" THEN DotImplementedAsGemm(h)
    ELSE IF /\ h.opcode = "kFusion"
            /\ h.fusion_kind = "kOutput"
            /\ \/ h.fused_expression_root.opcode = "kMultiply"
               \/ h.fused_expression_root.opcode = "kAdd"
    THEN LET op1 == h.fused_expression_root.operands[2]
             dot == IF op1.opcode # "kDot"
                    THEN h.fused_expression_root.operands[1]
                    ELSE op1
         IN  IF dot.opcode = "kDot" THEN DotImplementedAsGemm(dot)
             ELSE Returned(FALSE)
    ELSE Returned(FALSE)

ImplementedAsGemm_Operand0Only(h) ==
    IF h.opcode = "kDot" THEN DotImplementedAsGemm(h)
    ELSE IF /\ h.opcode = "kFusion"
            /\ h.fusion_kind = "kOutput"
            /\ \/ h.fused_expression_root.opcode = "kMultiply"
               \/ h.fused_expression_root.opcode = "kAdd"
    THEN LET dot == h.fused_expression_root.operands[1]
         IN  IF dot.opcode = "kDot" THEN DotImplementedAsGemm(dot)
             ELSE Returned(FALSE)
    ELSE Returned(FALSE)

ImplementedAsGemm_LoopFusionToo(h) ==
    IF h.opcode = "kDot" THEN DotImplementedAsGemm(h)
    ELSE IF /\ h.opcode = "kFusion"
            /\ h.fusion_kind \in {"kOutput", "kLoop"}
            /\ \/ h.fused_expression_root.opcode = "kMultiply"
               \/ h.fused_expression_root.opcode = "kAdd"
    THEN LET op0 == h.fused_expression_root.operands[1]
             dot == IF op0.opcode # "kDot"
                    THEN h.fused_expression_root.operands[2]
                    ELSE op0
         IN  IF dot.opcode = "kDot" THEN DotImplementedAsGemm(dot)
             ELSE Returned(FALSE)
    ELSE Returned(FALSE)

ImplementedAsGemm(h) ==
    IF h.opcode = "kDot" THEN DotImplementedAsGemm(h)
    ELSE IF /\ h.opcode = "kFusion"
            /\ h.fusion_kind = "kOutput"
            /\ \/ h.fused_expression_root.opcode = "kMultiply"
               \/ h.fused_expression_root.opcode = "kAdd"
    THEN LET op0 == h.fused_expression_root.operands[1]
             dot == IF op0.opcode # "kDot"
                    THEN h.fused_expression_root.operands[2]
                    ELSE op0
         IN  IF dot.opcode = "kDot" THEN DotImplementedAsGemm(dot)
             ELSE Returned(FALSE)
    ELSE Returned(FALSE)

-----------------------------------------------------------------------------
(* cuDNN custom-call targets.                                              *)

kCudnnBatchNormForwardInferenceCallTarget ==
    "__cudnn$batchNormalizationForwardInference"
kCudnnBatchNormForwardTrainingCallTarget ==
    "__cudnn$batchNormalizationForwardTraining"
kCudnnBatchNormBackwardCallTarget == "__cudnn$batchNormalizationBackward"

IsCustomCallToDnnBatchNorm(h) ==
    IF h.opcode # "kCustomCall" THEN FALSE
    ELSE LET target == h.custom_call_target
         IN  \/ target = kCudnnBatchNormForwardInferenceCallTarget
             \/ target = kCudnnBatchNormForwardTrainingCallTarget
             \/ target = kCudnnBatchNormBackwardCallTarget

kCudnnConvForwardCallTarget == "__cudnn$convForward"
kCudnnConvBackwardInputCallTarget == "__cudnn$convBackwardInput"
kCudnnConvBackwardFilterCallTarget == "__cudnn$convBackwardFilter"
kCudnnConvBiasActivationForwardCallTarget ==
    "__cudnn$convBiasActivationForward"

IsCustomCallToDnnConvolution_NoBiasActivation(h) ==
    IF h.opcode # "kCustomCall" THEN FALSE
    ELSE LET target == h.custom_call_target
         IN  \/ target = kCudnnConvForwardCallTarget
             \/ target = kCudnnConvBackwardInputCallTarget
             \/ target = kCudnnConvBackwardFilterCallTarget

IsCustomCallToDnnConvolution(h) ==
    IF h.opcode # "kCustomCall" THEN FALSE
    ELSE LET target == h.custom_call_target
         IN  \/ target = kCudnnConvForwardCallTarget
             \/ target = kCudnnConvBackwardInputCallTarget
             \/ target = kCudnnConvBackwardFilterCallTarget
             \/ target = kCudnnConvBiasActivationForwardCallTarget

ImplementedAsLibraryCall_NoConvolution(h) ==
    LET gemm == ImplementedAsGemm(h)
    IN  IF gemm.aborted THEN CheckFailed
        ELSE Returned(gemm.value \/ IsCustomCallToDnnBatchNorm(h))

ImplementedAsLibraryCall(h) ==
    LET gemm == ImplementedAsGemm(h)
    IN  IF gemm.aborted THEN CheckFailed
        ELSE Returned(\/ gemm.value
                      \/ IsCustomCallToDnnBatchNorm(h)
                      \/ IsCustomCallToDnnConvolution(h))

\* StatusOr<CudnnConvKind>: a kind, or an error status with its message.
\* InternalError(format, arg) with the format "<prefix>%s".
InternalError(prefix, arg) ==
    [ok |-> FALSE, code |-> "INTERNAL", message |-> prefix \o arg]
OkKind(kind) == [ok |-> TRUE, kind |-> kind]

GetCudnnConvKind_SwappedBackward(instr) ==
    LET target == instr.custom_call_target
    IN  IF target = kCudnnConvForwardCallTarget THEN OkKind("kForward")
        ELSE IF target = kCudnnConvBackwardInputCallTarget
        THEN OkKind("kBackwardFilter")
        ELSE IF target = kCudnnConvBackwardFilterCallTarget
        THEN OkKind("kBackwardInput")
        ELSE IF target = kCudnnConvBiasActivationForwardCallTarget
        THEN OkKind("kForwardActivation")
        ELSE InternalError("Unexpected call target: ", target)

GetCudnnConvKind_NoBiasActivation(instr) ==
    LET target == instr.custom_call_target
    IN  IF target = kCudnnConvForwardCallTarget THEN OkKind("kForward")
        ELSE IF target = kCudnnConvBackwardInputCallTarget
        THEN OkKind("kBackwardInput")
        ELSE IF target = kCudnnConvBackwardFilterCallTarget
        THEN OkKind("kBackwardFilter")
        ELSE InternalError("Unexpected call target: ", target)

GetCudnnConvKind(instr) ==
    LET target == instr.custom_call_target
    IN  IF target = kCudnnConvForwardCallTarget THEN OkKind("kForward")
        ELSE IF target = kCudnnConvBackwardInputCallTarget
        THEN OkKind("kBackwardInput")
        ELSE IF target = kCudnnConvBackwardFilterCallTarget
        THEN OkKind("kBackwardFilter")
        ELSE IF target = kCudnnConvBiasActivationForwardCallTarget
        THEN OkKind("kForwardActivation")
        ELSE InternalError("Unexpected call target: ", target)


-----------------------------------------------------------------------------
(* Reduction to vector.                                                    *)

\* PositionInContainer: the 0-based position of dim in minor_to_major.
PositionInContainer(container, dim) ==
    (CHOOSE k \in 1..Len(container) : container[k] = dim) - 1

\* LayoutUtil::AreDimensionsConsecutive: the sorted layout positions of dims
\* differ by exactly one from each to the next.
AreDimensionsConsecutive(layout, dims) ==
    LET positions_in_layout ==
            [k \in 1..Len(dims) |->
                PositionInContainer(layout.minor_to_major, dims[k])]
        sorted == SortSeq(positions_in_layout, LAMBDA a, b : a < b)
    IN  \A k \in 2..Len(sorted) : sorted[k] - sorted[k - 1] = 1

\* Shape::DeleteDimension: drops the dimension and renumbers the layout.
DeleteDimension(dim_to_delete, shape) ==
    LET kept == SelectSeq(shape.layout.minor_to_major,
                          LAMBDA d : d # dim_to_delete)
    IN  [element_type |-> shape.element_type,
         dimensions |-> [k \in 1..(Len(shape.dimensions) - 1) |->
                            IF k <= dim_to_delete THEN shape.dimensions[k]
                            ELSE shape.dimensions[k + 1]],
         layout |-> [minor_to_major |->
                        [k \in 1..Len(kept) |->
                            IF kept[k] > dim_to_delete THEN kept[k] - 1
                            ELSE kept[k]]]]

Count(seq, v) == Cardinality({k \in 1..Len(seq) : seq[k] = v})

\* ShapeUtil::FilterDimensions with the predicate of IsReductionToVector,
\* absl::c_count(dims_to_keep, dim): deletes, from the last dimension down,
\* every dimension at or below dim that the predicate rejects.
RECURSIVE FilterDimensionsFrom(_, _, _)
FilterDimensionsFrom(dim, dims_to_keep, shape) ==
    IF dim < 0 THEN shape
    ELSE FilterDimensionsFrom(
             dim - 1, dims_to_keep,
             IF Count(dims_to_keep, dim) = 0
             THEN DeleteDimension(dim, shape) ELSE shape)

FilterDimensions(dims_to_keep, shape) ==
    FilterDimensionsFrom(Len(shape.dimensions) - 1, dims_to_keep, shape)

\* ShapeUtil::Equal: element type, dimensions and layout agree.
ShapeEqual(lhs, rhs) ==
    /\ lhs.element_type = rhs.element_type
    /\ lhs.dimensions = rhs.dimensions
    /\ lhs.layout = rhs.layout

LinearSearch(seq, v) == \E k \in 1..Len(seq) : seq[k] = v

DimsToKeep(reduce) ==
    SelectSeq([k \in 1..Len(reduce.operands[1].shape.dimensions) |-> k - 1],
              LAMBDA dim : ~LinearSearch(reduce.dimensions, dim))

IsReductionToVector_NoLayoutCheck(reduce) ==
    IF reduce.opcode # "kReduce" THEN FALSE
    ELSE LET input == reduce.operands[1]
             dims_to_keep == DimsToKeep(reduce)
         IN  ShapeEqual(reduce.shape,
                        FilterDimensions(dims_to_keep, input.shape))

IsReductionToVector(reduce) ==
    IF reduce.opcode # "kReduce" THEN FALSE
    ELSE LET input == reduce.operands[1]
             dims_to_keep == DimsToKeep(reduce)
         IN  /\ AreDimensionsConsecutive(input.shape.layout, dims_to_keep)
             /\ ShapeEqual(reduce.shape,
                           FilterDimensions(dims_to_keep, input.shape))

-----------------------------------------------------------------------------
(* Full-warp shuffle-down.  A W-bit value is the sequence of its bits,     *)
(* least significant first; every IR value is tracked by the bits it holds *)
(* in each lane of the group.                                              *)

\* the width of one shuffled segment ("shfl" operates on 32-bit values)
SegmentBits == 32

Lanes == 0..(GroupSize - 1)

CeilOfRatio(a, b) == (a + b - 1) \div b

Zeros(n) == [k \in 1..n |-> 0]

\* IRBuilder::CreateZExt / CreateTrunc on an integer of Len(bits) bits.
ZExt(bits, n) == bits \o Zeros(n - Len(bits))
Trunc(bits, n) == SubSeq(bits, 1, n)

\* IRBuilder::CreateBitCast between i(32*n) and <n x i32>: element k holds
\* bits 32k .. 32k+31.
BitCastToVector(bits, n) ==
    [k \in 1..n |-> SubSeq(bits, SegmentBits * (k - 1) + 1, SegmentBits * k)]
RECURSIVE BitCastToInt(_)
BitCastToInt(vec) ==
    IF vec = <<>> THEN <<>> ELSE Head(vec) \o BitCastToInt(Tail(vec))

\* IRBuilder::CreateExtractElement / CreateInsertElement, 0-based index.
ExtractElement(vec, idx) == vec[idx + 1]
InsertElement(vec, elem, idx) == [vec EXCEPT ![idx + 1] = elem]

\* __ockl_readuplane_i32(v, offset), lane by lane: the content of v in the
\* lane offset positions up.  What a lane whose target lies outside the
\* group receives is unspecified: its own content or zero (oob).
ReadUpLane(v, off, oob) ==
    [l \in Lanes |->
        IF l + off < GroupSize THEN v[l + off]
        ELSE IF oob = "self" THEN v[l] ELSE Zeros(SegmentBits)]

OutOfRange == {"self", "zero"}

\* llvm_ir::PrimitiveTypeToIrType: signed and unsigned integers of a width
\* share one IR type.
PrimitiveTypeToIrType(element_type) ==
    CASE element_type \in {"S32", "U32"} -> "i32"
      [] element_type \in {"S64", "U64"} -> "i64"
      [] element_type = "F16" -> "half"
      [] element_type = "F32" -> "float"
      [] element_type = "F64" -> "double"

\* llvm::FunctionType::get without variadic arguments.
FunctionTypeGet(result, params) == [result |-> result, params |-> params]

\* Module::getOrInsertFunction: declares the callee unless the module holds
\* a function of that name.
GetOrInsertFunction(mod, callee_name, callee_type) ==
    IF \E f \in mod : f.name = callee_name THEN mod
    ELSE mod \cup {[name |-> callee_name, type |-> callee_type,
                    attributes |-> {}]}

\* What getOrInsertFunction(...).getCallee() is when the module holds the
\* name with another type is a cast of the function, not an llvm::Function,
\* and the dyn_cast of it is null.
IsNullCallee(mod, callee_name, callee_type) ==
    \E f \in mod : f.name = callee_name /\ f.type # callee_type

\* Function::addFnAttr for every attribute of the list.
AddFnAttrs(mod, callee_name, attributes) ==
    {IF f.name = callee_name
     THEN [f EXCEPT !.attributes = @ \cup attributes] ELSE f : f \in mod}

\* The llvm::FunctionType EmitDeviceFunctionCall builds (lines 176-184).
CalleeType(input_types, output_type) ==
    FunctionTypeGet(
        PrimitiveTypeToIrType(output_type),
        [k \in 1..Len(input_types) |-> PrimitiveTypeToIrType(input_types[k])])

\* EmitDeviceFunctionCall when the callee is an llvm::Function: the module
\* and the call list after the call.
EmitDeviceFunctionCall(callee_name, operands, input_types, output_type, attributes) ==
    LET callee_type == CalleeType(input_types, output_type)
    IN  /\ ~IsNullCallee(module, callee_name, callee_type)
        /\ module' = AddFnAttrs(
                         GetOrInsertFunction(module, callee_name, callee_type),
                         callee_name, attributes)
        /\ calls' = Append(calls, [callee |-> callee_name,
                                   operands |-> operands])

IsFastPath_DoubleTy(type) ==
    type.kind = "double" /\ type.bit_width = SegmentBits

IsFastPath(type) == type.kind = "float" /\ type.bit_width = SegmentBits

NumSegments(bit_width) == CeilOfRatio(bit_width, SegmentBits)

\* One iteration of the segment loop on the vector x: element idx of every
\* lane is replaced by what the cross-lane read of element idx returns.
ShuffledSegment(xv, idx, off, oob) ==
    ReadUpLane([l \in Lanes |-> ExtractElement(xv[l], idx)], off, oob)

SegmentStep_IntoZeroVector(xv, idx, off, oob) ==
    [l \in Lanes |->
        InsertElement([k \in 1..Len(xv[l]) |-> Zeros(SegmentBits)],
                      ShuffledSegment(xv, idx, off, oob)[l], idx)]

SegmentStep_ReadsElementZero(xv, idx, off, oob) ==
    [l \in Lanes |->
        InsertElement(xv[l], ShuffledSegment(xv, 0, off, oob)[l], idx)]

SegmentStep(xv, idx, off, oob) ==
    [l \in Lanes |->
        InsertElement(xv[l], ShuffledSegment(xv, idx, off, oob)[l], idx)]

-----------------------------------------------------------------------------
(* The nodes handed to the classifiers.                                    *)

Parameter(shape) == [opcode |-> "kParameter", shape |-> shape]

\* Dimensions of a dot operand: b leading batch dimensions of extent 2
\* followed by one or two dimensions over Extents.
DotDims(b) ==
    {[k \in 1..b |-> 2] \o t : t \in [1..1 -> Extents] \cup [1..2 -> Extents]}

\* Dot nodes: any declared result shape (rank 1..b+2, F32 or S32), any
\* non-batch dimension of an operand as its contracting dimension.
DotNode(t, l, r, n, b, lc, rc) ==
    [opcode |-> "kDot",
     shape |-> MakeShape(t, [k \in 1..n |-> 2]),
     operands |-> <<Parameter(MakeShape(t, l)), Parameter(MakeShape(t, r))>>,
     dot_dimension_numbers |->
         [lhs_batch_dimensions |-> [k \in 1..b |-> k - 1],
          rhs_batch_dimensions |-> [k \in 1..b |-> k - 1],
          lhs_contracting_dimensions |-> <<lc>>,
          rhs_contracting_dimensions |-> <<rc>>]]

IsDotNode(h) ==
    \E b \in 0..MaxDotBatch :
      \E l \in DotDims(b), r \in DotDims(b) :
        \E lc \in b..(Len(l) - 1), rc \in b..(Len(r) - 1),
           n \in 1..(b + 2), t \in {"F32", "S32"} :
            h = DotNode(t, l, r, n, b, lc, rc)

\* The dots that occur as operands of a fused root: lhs [2,3] contracted on
\* dimension 1, rhs any matrix contracted on dimension 0, result [2,2].
FusedDots ==
    {DotNode(t, <<2, 3>>, r, 2, 0, 1, 0) :
        t \in {"F32", "S32"}, r \in [1..2 -> Extents]}

FusedOperands ==
    FusedDots \cup {Parameter(MakeShape("F32", <<2, 2>>)),
                    [opcode |-> "kConstant", shape |-> MakeShape("F32", <<>>)]}

FusionKinds == {"kLoop", "kInput", "kOutput", "kCustom"}
RootOpcodes == {"kMultiply", "kAdd", "kSubtract"}

FusionNodes ==
    {[opcode |-> "kFusion",
      fusion_kind |-> k,
      fused_expression_root |-> [opcode |-> op, operands |-> <<a, b>>]] :
        k \in FusionKinds, op \in RootOpcodes,
        a \in FusedOperands, b \in FusedOperands}

\* Custom-call targets: the seven cuDNN identifiers and strings that differ
\* from one of them by a character, a trailing blank or letter case.
CallTargets ==
    {kCudnnBatchNormForwardInferenceCallTarget,
     kCudnnBatchNormForwardTrainingCallTarget,
     kCudnnBatchNormBackwardCallTarget,
     kCudnnConvForwardCallTarget,
     kCudnnConvBackwardInputCallTarget,
     kCudnnConvBackwardFilterCallTarget,
     kCudnnConvBiasActivationForwardCallTarget,
     "__cudnn$convForward ",
     " __cudnn$convForward",
     "__cudnn$convForwar",
     "__cudnn$convforward",
     "__cudnn$convBackwardInput\n",
     "__cudnn$batchNormalizationBackward ",
     "__cudnn$batchNormalizationForward",
     "__cublas$gemm",
     ""}

CustomCallNodes ==
    {[opcode |-> "kCustomCall", custom_call_target |-> t] : t \in CallTargets}

OtherNodes ==
    {Parameter(MakeShape("F32", <<2, 2>>)),
     [opcode |-> "kAdd", shape |-> MakeShape("F32", <<2, 2>>)]}


\* Reduce nodes: an f32 input of rank n over extents {2, 3} in any layout,
\* any set of reduced dimensions, and a declared result shape of rank below
\* maxrank in the default or the reversed layout (f32), or in the default
\* layout (f16).
ReduceExtents == {2, 3}
Layouts(n) ==
    {p \in [1..n -> 0..(n - 1)] : \A a, b \in 1..n : p[a] = p[b] => a = b}
\* The members of S, a set of dimension numbers below n, in ascending order.
AscendingSeq(S, n) == SelectSeq([k \in 1..n |-> k - 1], LAMBDA d : d \in S)

ReduceResultShapes(maxrank) ==
    UNION {
      {[element_type |-> "F32", dimensions |-> d, layout |-> l] :
          l \in {DefaultLayout(Len(d)),
                 [minor_to_major |-> [k \in 1..Len(d) |-> k - 1]]}}
      \cup {MakeShape("F16", d)} :
      d \in SeqsUpTo(ReduceExtents, maxrank - 1)}

ReduceNode(d, l, D, out) ==
    [opcode |-> "kReduce",
     shape |-> out,
     operands |-> <<Parameter([element_type |-> "F32", dimensions |-> d,
                               layout |-> [minor_to_major |-> l]]),
                    [opcode |-> "kConstant",
                     shape |-> MakeShape("F32", <<>>)]>>,
     dimensions |-> AscendingSeq(D, Len(d))]

IsReduceNode(h, maxin, maxrank) ==
    \E n \in 1..maxin :
      \E d \in [1..n -> ReduceExtents], l \in Layouts(n),
         D \in SUBSET (0..(n - 1)), out \in ReduceResultShapes(maxrank) :
          h = ReduceNode(d, l, D, out)

-----------------------------------------------------------------------------
(* The classifiers applied to one node.                                    *)

\* Every dot node, fusion node and custom call of the universe, the other
\* nodes, and the reduce nodes with an input of rank 1 or 2.
InitClassify ==
    /\ \/ IsDotNode(hlo)
       \/ hlo \in FusionNodes \cup CustomCallNodes \cup OtherNodes
       \/ IsReduceNode(hlo, 2, 2)
    /\ gemm_args = NoArgs
    /\ pc = "idle"
    /\ fn = ""
    /\ ret = FALSE
    /\ ShuffleIdle
    /\ OthersIdle

\* A call that may abort: on a failed CHECK the process dies and nothing is
\* returned.
Finish(name, outcome) ==
    /\ fn' = name
    /\ pc' = IF outcome.aborted THEN "aborted" ELSE "returned"
    /\ ret' = IF outcome.aborted THEN ret ELSE outcome.value
    /\ UNCHANGED <<gemm_args, classifyVars, shuffleVars, otherVars>>

CallImplementedAsGemm ==
    /\ pc = "idle"
    /\ Finish("ImplementedAsGemm", ImplementedAsGemm(hlo))

CallIsCustomCallToDnnBatchNorm ==
    /\ pc = "idle"
    /\ Finish("IsCustomCallToDnnBatchNorm",
              Returned(IsCustomCallToDnnBatchNorm(hlo)))

CallIsCustomCallToDnnConvolution ==
    /\ pc = "idle"
    /\ Finish("IsCustomCallToDnnConvolution",
              Returned(IsCustomCallToDnnConvolution(hlo)))

CallImplementedAsLibraryCall ==
    /\ pc = "idle"
    /\ Finish("ImplementedAsLibraryCall", ImplementedAsLibraryCall(hlo))

\* GetCudnnConvKind takes an HloCustomCallInstruction.
CallGetCudnnConvKind ==
    /\ pc = "idle"
    /\ hlo.opcode = "kCustomCall"
    /\ Finish("GetCudnnConvKind", Returned(GetCudnnConvKind(hlo)))

CallIsReductionToVector ==
    /\ pc = "idle"
    /\ Finish("IsReductionToVector", Returned(IsReductionToVector(hlo)))

NextClassify ==
    \/ CallImplementedAsGemm
    \/ CallIsCustomCallToDnnBatchNorm
    \/ CallIsCustomCallToDnnConvolution
    \/ CallImplementedAsLibraryCall
    \/ CallGetCudnnConvKind
    \/ CallIsReductionToVector

SpecClassify == InitClassify /\ [][NextClassify]_vars

-----------------------------------------------------------------------------
(* IsReductionToVector applied to reduce nodes (and to nodes of another    *)
(* opcode).                                                                *)

InitReduce ==
    /\ \/ IsReduceNode(hlo, MaxReduceRank, MaxReduceRank)
       \/ hlo \in CustomCallNodes \cup OtherNodes
    /\ gemm_args = NoArgs
    /\ pc = "idle"
    /\ fn = ""
    /\ ret = FALSE
    /\ ShuffleIdle
    /\ OthersIdle

NextReduce == CallIsReductionToVector

SpecReduce == InitReduce /\ [][NextReduce]_vars


-----------------------------------------------------------------------------
(* EmitFullWarpShuffleDown and the execution of the code it emits.         *)

\* LLVM types of the shuffled value: integers (a complex value is shuffled
\* as the integer of its width), half, float and double.
ShuffleTypes ==
    {[kind |-> "integer", bit_width |-> w] : w \in {8, 16, 32, 48, 64, 128}}
    \cup {[kind |-> "half", bit_width |-> 16],
          [kind |-> "float", bit_width |-> 32],
          [kind |-> "double", bit_width |-> 64]}

\* Bit patterns of width w: in pattern s, bit k of segment j is set when
\* k + j is a multiple of s + 2, so neighbouring segments differ from one
\* another; and the all-ones pattern.
Pattern(w, s) ==
    [b \in 1..w |->
        IF (((b - 1) % SegmentBits) + ((b - 1) \div SegmentBits)) % (s + 2) = 0
        THEN 1 ELSE 0]
Patterns(w) == {Pattern(w, s) : s \in 1..NumSeeds} \cup {[b \in 1..w |-> 1]}

InitShuffle ==
    /\ value_type \in ShuffleTypes
    /\ value \in [Lanes -> Patterns(value_type.bit_width)]
    /\ offset \in 0..GroupSize
    /\ x = <<>>
    /\ i = 0
    /\ calls = <<>>
    /\ module = {}
    /\ gemm_args = NoArgs
    /\ hlo = NoNode
    /\ pc = "idle"
    /\ fn = ""
    /\ ret = <<>>
    /\ OthersIdle

\* Lines 238-251: the 32-bit float is bit-cast to i32, exchanged by one call
\* and bit-cast back.
ShuffleFastPath ==
    /\ pc = "idle"
    /\ IsFastPath(value_type)
    /\ \E oob \in OutOfRange :
          /\ EmitDeviceFunctionCall("__ockl_readuplane_i32",
                                    <<value, offset>>, <<"S32", "S32">>,
                                    "S32", {})
          /\ ret' = ReadUpLane(value, offset, oob)
    /\ pc' = "returned"
    /\ fn' = "EmitFullWarpShuffleDown"
    /\ UNCHANGED <<otherVars, gemm_args, hlo, value, value_type, offset, x,
                   i>>

\* Lines 256-261: the value is bit-cast to an integer, zero-extended to
\* 32 * num_segments bits and bit-cast to the vector x.
ShuffleSplit ==
    /\ pc = "idle"
    /\ ~IsFastPath(value_type)
    /\ LET num_segments == NumSegments(value_type.bit_width)
       IN  x' = [l \in Lanes |->
                    BitCastToVector(ZExt(value[l],
                                         SegmentBits * num_segments),
                                    num_segments)]
    /\ i' = 0
    /\ pc' = "loop"
    /\ fn' = "EmitFullWarpShuffleDown"
    /\ UNCHANGED <<otherVars, gemm_args, hlo, ret, value, value_type,
                   offset, calls, module>>

\* Lines 262-270: one iteration of the segment loop.
ShuffleSegment ==
    /\ pc = "loop"
    /\ i < NumSegments(value_type.bit_width)
    /\ \E oob \in OutOfRange :
          /\ EmitDeviceFunctionCall(
                 "__ockl_readuplane_i32",
                 <<[l \in Lanes |-> ExtractElement(x[l], i)], offset>>,
                 <<"S32", "S32">>, "S32", {})
          /\ x' = SegmentStep(x, i, offset, oob)
    /\ i' = i + 1
    /\ UNCHANGED <<otherVars, gemm_args, hlo, pc, fn, ret, value, value_type,
                   offset>>

ShuffleJoin_NoTrunc ==
    /\ pc = "loop"
    /\ i = NumSegments(value_type.bit_width)
    /\ ret' = [l \in Lanes |-> BitCastToInt(x[l])]
    /\ pc' = "returned"
    /\ UNCHANGED <<otherVars, gemm_args, hlo, fn, value, value_type, offset,
                   x, i, calls, module>>

\* Lines 271-275: x is bit-cast to an integer, truncated to bit_width bits
\* and bit-cast to the type of value.
ShuffleJoin ==
    /\ pc = "loop"
    /\ i = NumSegments(value_type.bit_width)
    /\ ret' = [l \in Lanes |->
                  Trunc(BitCastToInt(x[l]), value_type.bit_width)]
    /\ pc' = "returned"
    /\ UNCHANGED <<otherVars, gemm_args, hlo, fn, value, value_type, offset,
                   x, i, calls, module>>

NextShuffle ==
    \/ ShuffleFastPath
    \/ ShuffleSplit
    \/ ShuffleSegment
    \/ ShuffleJoin

SpecShuffle == InitShuffle /\ [][NextShuffle]_vars

\* The emitter is straight-line, single-threaded code: a step that can be
\* taken is taken.  Every step changes pc or i.
FairSpecShuffle == SpecShuffle /\ WF_<<pc, i>>(NextShuffle)

-----------------------------------------------------------------------------
(* A sequence of EmitDeviceFunctionCall invocations on one module.         *)

CalleeNames == {"__ockl_readuplane_i32", "__ocml_exp_f32"}
InputTypeLists == {<<"S32", "S32">>, <<"U32", "S32">>, <<"F32">>}
OutputTypes == {"S32", "F32"}
AttributeLists == {{}, {"NoUnwind"}}
OperandValues == {"v1", "v2"}

InitDeviceCall ==
    /\ module = {}
    /\ calls = <<>>
    /\ requests = <<>>
    /\ pc = "idle"
    /\ fn = ""
    /\ ret = FALSE
    /\ gemm_args = NoArgs
    /\ hlo = NoNode
    /\ value = <<>>
    /\ value_type = [kind |-> "void", bit_width |-> 0]
    /\ offset = 0
    /\ x = <<>>
    /\ i = 0
    /\ fmt = ""
    /\ arguments = <<>>
    /\ insts = <<>>
    /\ GridIdle
    /\ IteratorIdle

\* One invocation.  With a null callee, callee->addFnAttr and CreateCall
\* dereference a null pointer: the process faults, or, where the library
\* hands back the declared function itself instead of a cast of it, the
\* call is emitted through the declaration the module already holds.
CallEmitDeviceFunctionCall ==
    /\ pc \in {"idle", "returned"}
    /\ Len(requests) < MaxDeviceCalls
    /\ \E callee_name \in CalleeNames, input_types \in InputTypeLists,
          output_type \in OutputTypes, attributes \in AttributeLists,
          v \in OperandValues :
          LET operands == [k \in 1..Len(input_types) |-> v]
              callee_type == CalleeType(input_types, output_type)
          IN  /\ requests' = Append(requests,
                                    [callee_name |-> callee_name,
                                     operands |-> operands,
                                     callee_type |-> callee_type,
                                     attributes |-> attributes])
              /\ \/ /\ EmitDeviceFunctionCall(callee_name, operands,
                                               input_types, output_type,
                                               attributes)
                    /\ pc' = "returned"
                    /\ ret' = Len(calls')
                 \/ /\ IsNullCallee(module, callee_name, callee_type)
                    /\ \/ /\ pc' = "aborted"
                          /\ UNCHANGED <<ret, calls, module>>
                       \/ /\ module' = AddFnAttrs(module, callee_name,
                                                  attributes)
                          /\ calls' = Append(calls,
                                             [callee |-> callee_name,
                                              operands |-> operands])
                          /\ pc' = "returned"
                          /\ ret' = Len(calls')
    /\ fn' = "EmitDeviceFunctionCall"
    /\ UNCHANGED <<gemm_args, hlo, value, value_type, offset, x, i, fmt,
                   arguments, insts, gridVars, iteratorVars>>

NextDeviceCall == CallEmitDeviceFunctionCall

SpecDeviceCall == InitDeviceCall /\ [][NextDeviceCall]_vars

-----------------------------------------------------------------------------
(* EmitPrintf.  The builder's instructions are records; an instruction is  *)
(* referred to by its position in insts.                                   *)

ArgumentTypes == {"i32", "i64", "float", "double"}
FormatStrings == {"%d\n", "x=%f y=%d\n"}

\* The k-th argument is the value k of some type.
InitPrintf ==
    /\ fmt \in FormatStrings
    /\ \E n \in 0..MaxPrintfArgs :
          \E types \in [1..n -> ArgumentTypes] :
              arguments = [k \in 1..n |-> [id |-> k, type |-> types[k]]]
    /\ insts = <<>>
    /\ requests = <<>>
    /\ gemm_args = NoArgs
    /\ hlo = NoNode
    /\ pc = "idle"
    /\ fn = ""
    /\ ret = FALSE
    /\ ShuffleIdle
    /\ GridIdle
    /\ IteratorIdle

\* Lines 206-211: the argument types are collected, the struct type is
\* created and the buffer allocated.  StructType::create(ArrayRef) may not
\* be invoked with an empty list: it reads the context of element 0, which
\* an empty list does not have, and the process faults.
PrintfAlloca ==
    /\ pc = "idle"
    /\ fn' = "EmitPrintf"
    /\ LET argument_types ==
               [k \in 1..Len(arguments) |-> arguments[k].type]
       IN  IF argument_types = <<>>
           THEN /\ pc' = "aborted"
                /\ UNCHANGED <<insts, i>>
           ELSE /\ insts' = Append(insts,
                                   [op |-> "alloca",
                                    type |-> [struct |-> argument_types]])
                /\ i' = 0
                /\ pc' = "loop"
    /\ UNCHANGED <<gemm_args, hlo, ret, value, value_type, offset, x, calls,
                   module, requests, fmt, arguments, gridVars, iteratorVars>>

\* Lines 212-217: the address of field i of the buffer is computed and
\* argument i is stored to it.
PrintfStore ==
    /\ pc = "loop"
    /\ fn = "EmitPrintf"
    /\ i < Len(arguments)
    /\ LET arguments_ptr == 1
           gep == [op |-> "gep", ptr |-> arguments_ptr, indices |-> <<0, i>>]
           store == [op |-> "store", value |-> arguments[i + 1],
                     ptr |-> Len(insts) + 1]
       IN  insts' = insts \o <<gep, store>>
    /\ i' = i + 1
    /\ UNCHANGED <<gemm_args, hlo, pc, fn, ret, value, value_type, offset, x,
                   calls, module, requests, fmt, arguments, gridVars,
                   iteratorVars>>

\* Lines 218-226: vprintf is declared unless the module holds it, and
\* called with the format string and the buffer.
PrintfCall ==
    /\ pc = "loop"
    /\ fn = "EmitPrintf"
    /\ i = Len(arguments)
    /\ LET arguments_ptr == 1
           callee_type ==
               FunctionTypeGet("i32", <<"i8*", [pointer_to |-> insts[1].type]>>)
           call == [op |-> "call", callee |-> "vprintf",
                    operands |-> <<[global_string |-> fmt], arguments_ptr>>]
       IN  /\ module' = GetOrInsertFunction(module, "vprintf", callee_type)
           /\ insts' = Append(insts, call)
           /\ ret' = Len(insts')
    /\ pc' = "returned"
    /\ UNCHANGED <<gemm_args, hlo, fn, value, value_type, offset, x, i, calls,
                   requests, fmt, arguments, gridVars, iteratorVars>>

NextPrintf ==
    \/ PrintfAlloca
    \/ PrintfStore
    \/ PrintfCall

SpecPrintf == InitPrintf /\ [][NextPrintf]_vars

-----------------------------------------------------------------------------
(* IsBlock0Thread0 and the evaluation of the predicate it emits by the     *)
(* lanes of a launch grid.  An IR value is the expression that computes    *)
(* it; a lane is the pair <<thread index, block index>>.                   *)

kTHREAD_ID_X == "kTHREAD_ID_X"
kBLOCK_ID_X == "kBLOCK_ID_X"

\* llvm_ir::EmitCallToTargetIntrinsic without operands.
EmitCallToTargetIntrinsic(intrinsic_id) ==
    [op |-> "call", intrinsic |-> intrinsic_id]

\* IRBuilder::getInt32, CreateICmpEQ and CreateAnd.
GetInt32(c) == [op |-> "const", value |-> c]
CreateICmpEQ(lhs, rhs) == [op |-> "icmp_eq", lhs |-> lhs, rhs |-> rhs]
CreateAnd(lhs, rhs) == [op |-> "and", lhs |-> lhs, rhs |-> rhs]

IsBlock0Thread0_ThreadIdTwice ==
    CreateAnd(
        CreateICmpEQ(GetInt32(0), EmitCallToTargetIntrinsic(kTHREAD_ID_X)),
        CreateICmpEQ(GetInt32(0), EmitCallToTargetIntrinsic(kTHREAD_ID_X)))

IsBlock0Thread0 ==
    CreateAnd(
        CreateICmpEQ(GetInt32(0), EmitCallToTargetIntrinsic(kTHREAD_ID_X)),
        CreateICmpEQ(GetInt32(0), EmitCallToTargetIntrinsic(kBLOCK_ID_X)))

\* The value an expression has in a lane.
RECURSIVE Evaluate(_, _)
Evaluate(expr, lane) ==
    CASE expr.op = "const" -> expr.value
      [] expr.op = "call" ->
            IF expr.intrinsic = kTHREAD_ID_X THEN lane[1] ELSE lane[2]
      [] expr.op = "icmp_eq" ->
            Evaluate(expr.lhs, lane) = Evaluate(expr.rhs, lane)
      [] expr.op = "and" ->
            Evaluate(expr.lhs, lane) /\ Evaluate(expr.rhs, lane)

GridLanes ==
    (0..(grid.threads_per_block - 1)) \X (0..(grid.num_blocks - 1))

InitGrid ==
    /\ grid \in [threads_per_block : 1..MaxThreads, num_blocks : 1..MaxBlocks]
    /\ lane_pred = <<>>
    /\ gemm_args = NoArgs
    /\ hlo = NoNode
    /\ pc = "idle"
    /\ fn = ""
    /\ ret = FALSE
    /\ ShuffleIdle
    /\ EmitIdle
    /\ IteratorIdle

CallIsBlock0Thread0 ==
    /\ pc = "idle"
    /\ ret' = IsBlock0Thread0
    /\ pc' = "returned"
    /\ fn' = "IsBlock0Thread0"
    /\ UNCHANGED <<gemm_args, hlo, shuffleVars, otherVars>>

\* One lane of the grid executes the emitted predicate.
RunLane ==
    /\ pc = "returned"
    /\ fn = "IsBlock0Thread0"
    /\ \E lane \in GridLanes \ DOMAIN lane_pred :
          lane_pred' = [l \in DOMAIN lane_pred \cup {lane} |->
                           IF l = lane THEN Evaluate(ret, lane)
                           ELSE lane_pred[l]]
    /\ UNCHANGED <<gemm_args, hlo, pc, fn, ret, shuffleVars, emitVars, grid,
                   iteratorVars>>

NextGrid ==
    \/ CallIsBlock0Thread0
    \/ RunLane

SpecGrid == InitGrid /\ [][NextGrid]_vars

-----------------------------------------------------------------------------
(* The iterator of a TensorSliceDataset as the tests of                    *)
(* tensor_slice_dataset_op_test.cc drive it.  A component is the sequence  *)
(* of its slices along dimension 0.                                        *)

SliceValues == {"a", "b"}

\* dim_size(0), the same for every component
NumSlices == Len(tensors[1])

\* The k-th slice (k = 1..NumSlices) of every component, in component order.
Slice(k) == [c \in 1..Len(tensors) |-> tensors[c][k]]

\* Iterator::GetNext on the caller's out_tensors: the next slice and an
\* advanced position while a slice is left; at the end the flag is set and
\* out_tensors is left as the caller passed it.
IteratorGetNext_RepeatsFirst(it, out) ==
    IF it.i < NumSlices
    THEN [iterator |-> [i |-> it.i + 1], out_tensors |-> Slice(1),
          end_of_sequence |-> FALSE]
    ELSE [iterator |-> it, out_tensors |-> out, end_of_sequence |-> TRUE]

IteratorGetNext(it, out) ==
    IF it.i < NumSlices
    THEN [iterator |-> [i |-> it.i + 1], out_tensors |-> Slice(it.i + 1),
          end_of_sequence |-> FALSE]
    ELSE [iterator |-> it, out_tensors |-> out, end_of_sequence |-> TRUE]

\* The key under which the iterator named "Iterator" keeps a field.
FullName(name) == "Iterator::TensorSlice" \o ":" \o name

\* Iterator::Save writes the position as a scalar; Iterator::Restore reads
\* it back.
IteratorSave(it) == {<<FullName("i"), it.i>>}

IteratorRestore_Rewinds(data) == [i |-> 0]

IteratorRestore(data) ==
    [i |-> (CHOOSE kv \in data : kv[1] = FullName("i"))[2]]

InitIterator ==
    /\ \E c \in 1..MaxComponents, n \in 0..MaxSlices :
          tensors \in [1..c -> [1..n -> SliceValues]]
    /\ iterator = [i |-> 0]
    /\ out_tensors = <<>>
    /\ end_of_sequence = FALSE
    /\ writer = {}
    /\ log = <<>>
    /\ gemm_args = NoArgs
    /\ hlo = NoNode
    /\ pc = "idle"
    /\ fn = ""
    /\ ret = "OK"
    /\ ShuffleIdle
    /\ EmitIdle
    /\ GridIdle

\* iterator->GetNext(ctx, &out_tensors, &end_of_sequence); log keeps what
\* the vector held before and after the call and the flag.
GetNext ==
    /\ Len(log) < NumSlices + MaxCallsPastEnd
    /\ LET r == IteratorGetNext(iterator, out_tensors)
       IN  /\ iterator' = r.iterator
           /\ out_tensors' = r.out_tensors
           /\ end_of_sequence' = r.end_of_sequence
           /\ log' = Append(log, [before |-> out_tensors,
                                  out_tensors |-> r.out_tensors,
                                  end_of_sequence |-> r.end_of_sequence])
    /\ fn' = "GetNext"
    /\ pc' = "returned"
    /\ ret' = "OK"
    /\ UNCHANGED <<gemm_args, hlo, shuffleVars, emitVars, gridVars, tensors,
                   writer>>

\* out_tensors.clear() of the GetNext test, between two calls.
ClearOutTensors ==
    /\ out_tensors # <<>>
    /\ out_tensors' = <<>>
    /\ UNCHANGED <<gemm_args, hlo, pc, fn, ret, shuffleVars, emitVars,
                   gridVars, tensors, iterator, end_of_sequence, writer, log>>

\* The round trip of the Roundtrip test: Save into a fresh writer, then
\* Restore from a reader of the data written.
SaveAndRestore ==
    /\ writer' = IteratorSave(iterator)
    /\ iterator' = IteratorRestore(writer')
    /\ fn' = "Restore"
    /\ pc' = "returned"
    /\ ret' = "OK"
    /\ UNCHANGED <<gemm_args, hlo, shuffleVars, emitVars, gridVars, tensors,
                   out_tensors, end_of_sequence, log>>

NextIterator ==
    \/ GetNext
    \/ ClearOutTensors
    \/ SaveAndRestore

SpecIterator == InitIterator /\ [][NextIterator]_vars

-----------------------------------------------------------------------------
(* Properties.                                                             *)

Called(name) == fn = name /\ pc # "idle"
ReturnedFrom(name) == fn = name /\ pc = "returned"

HasZeroExtent(shape) ==
    \E d \in DOMAIN shape.dimensions : shape.dimensions[d] = 0

LhsContractingExtent(dot) ==
    dot.operands[1].shape.dimensions[
        dot.dot_dimension_numbers.lhs_contracting_dimensions[1] + 1]
RhsContractingExtent(dot) ==
    dot.operands[2].shape.dimensions[
        dot.dot_dimension_numbers.rhs_contracting_dimensions[1] + 1]
DotShapesValid(dot) ==
    AreValidGemmShapes(dot.operands[1].shape, dot.operands[2].shape,
                       dot.shape,
                       Len(dot.dot_dimension_numbers.lhs_batch_dimensions))

\* C2: on a dot node whose shapes pass AreValidGemmShapes but whose
\* contracting extents differ, ImplementedAsGemm ends in the fatal abort and
\* returns nothing; whenever it returns true for a dot node, the contracting
\* extents are equal.
C2_MismatchAborts ==
    (Called("ImplementedAsGemm") /\ hlo.opcode = "kDot") =>
        /\ (DotShapesValid(hlo)
              /\ LhsContractingExtent(hlo) # RhsContractingExtent(hlo))
             => pc = "aborted"
        /\ (pc = "returned" /\ ret = TRUE)
             => LhsContractingExtent(hlo) = RhsContractingExtent(hlo)

\* C2 witness: ImplementedAsGemm aborted on a dot with valid shapes and
\* contracting extents 3 and 2.
C2_Witness ==
    /\ Called("ImplementedAsGemm")
    /\ hlo.opcode = "kDot"
    /\ pc = "aborted"
    /\ LhsContractingExtent(hlo) = 3
    /\ RhsContractingExtent(hlo) = 2

IsEligibleProduct(node) ==
    node.opcode = "kDot" /\ DotImplementedAsGemm(node) = Returned(TRUE)
RootIsMultiplyOrAdd(fusion) ==
    fusion.fused_expression_root.opcode \in {"kMultiply", "kAdd"}
RootOperand(fusion, k) == fusion.fused_expression_root.operands[k + 1]

\* C3 as stated: the value ImplementedAsGemm returns for a fusion node is
\* true exactly when the fused root is multiply or add and exactly one of
\* its two operands is an eligible dot, and false otherwise.
C3_AsStated ==
    (ReturnedFrom("ImplementedAsGemm") /\ hlo.opcode = "kFusion") =>
        ret <=>
             /\ RootIsMultiplyOrAdd(hlo)
             /\ Cardinality({k \in {0, 1} :
                               IsEligibleProduct(RootOperand(hlo, k))}) = 1

\* The dot the fused search settles on: operand 0 when it is a dot, operand 1
\* otherwise.
ExaminedOperand(fusion) ==
    IF RootOperand(fusion, 0).opcode = "kDot" THEN RootOperand(fusion, 0)
    ELSE RootOperand(fusion, 1)
FusedDotExamined(fusion) ==
    /\ fusion.fusion_kind = "kOutput"
    /\ RootIsMultiplyOrAdd(fusion)
    /\ ExaminedOperand(fusion).opcode = "kDot"

\* C3 amended: on a fusion node ImplementedAsGemm returns true exactly when
\* the fusion kind is kOutput, the fused root is multiply or add, and the
\* first root operand that is a dot (operand 0, else operand 1) is eligible
\* by the raw-product rule; it aborts when that dot passes the shape test
\* with unequal contracting extents, and returns false in every other case.
C3_FusionIff ==
    (Called("ImplementedAsGemm") /\ hlo.opcode = "kFusion") =>
        IF FusedDotExamined(hlo)
           /\ DotImplementedAsGemm(ExaminedOperand(hlo)).aborted
        THEN pc = "aborted"
        ELSE /\ pc = "returned"
             /\ ret <=> /\ FusedDotExamined(hlo)
                        /\ IsEligibleProduct(ExaminedOperand(hlo))

\* C3 witness: an output fusion with root add whose operand 0 is no dot and
\* whose operand 1 is an eligible dot is classified true.
C3_Witness ==
    /\ ReturnedFrom("ImplementedAsGemm")
    /\ hlo.opcode = "kFusion"
    /\ hlo.fusion_kind = "kOutput"
    /\ hlo.fused_expression_root.opcode = "kAdd"
    /\ RootOperand(hlo, 0).opcode # "kDot"
    /\ IsEligibleProduct(RootOperand(hlo, 1))
    /\ ret = TRUE

\* C6: on a dot node with equal contracting extents ImplementedAsGemm
\* returns, and returns true exactly when AreValidGemmShapes holds for
\* (operand 0 shape, operand 1 shape, the node's shape) with B the number of
\* lhs batch dimensions of the node's dot_dimension_numbers.
C6_DotIffValidShapes ==
    (Called("ImplementedAsGemm") /\ hlo.opcode = "kDot"
       /\ LhsContractingExtent(hlo) = RhsContractingExtent(hlo)) =>
        /\ pc = "returned"
        /\ ret <=> DotShapesValid(hlo)

\* C6 witness: f32[2,3] x f32[3,2] -> f32[2,2] with no batch dimension is
\* classified true.
C6_Witness ==
    /\ ReturnedFrom("ImplementedAsGemm")
    /\ hlo.opcode = "kDot"
    /\ hlo.operands[1].shape = MakeShape("F32", <<2, 3>>)
    /\ hlo.operands[2].shape = MakeShape("F32", <<3, 2>>)
    /\ hlo.shape = MakeShape("F32", <<2, 2>>)
    /\ hlo.dot_dimension_numbers.lhs_batch_dimensions = <<>>
    /\ ret = TRUE

SwapRootOperands(fusion) ==
    [fusion EXCEPT !.fused_expression_root.operands = <<@[2], @[1]>>]

\* C7 as stated: a fusion whose root is multiply or add, with one root
\* operand an eligible dot and the other operand arbitrary, is classified
\* true, and so is the fusion with the two root operands swapped.
C7_AsStated ==
    (Called("ImplementedAsGemm") /\ hlo.opcode = "kFusion"
       /\ RootIsMultiplyOrAdd(hlo)
       /\ \E k \in {0, 1} : IsEligibleProduct(RootOperand(hlo, k))) =>
        /\ pc = "returned" /\ ret = TRUE
        /\ ImplementedAsGemm(SwapRootOperands(hlo)) = Returned(TRUE)

\* C7 amended: a kOutput fusion whose root is multiply or add, with one root
\* operand an eligible dot and the other operand either no dot at all or an
\* eligible dot as well, is classified true, and so is the fusion with the
\* two root operands swapped.
C7_SwapSymmetric ==
    (Called("ImplementedAsGemm") /\ hlo.opcode = "kFusion"
       /\ hlo.fusion_kind = "kOutput"
       /\ RootIsMultiplyOrAdd(hlo)
       /\ \E k \in {0, 1} :
            /\ IsEligibleProduct(RootOperand(hlo, k))
            /\ \/ RootOperand(hlo, 1 - k).opcode # "kDot"
               \/ IsEligibleProduct(RootOperand(hlo, 1 - k))) =>
        /\ pc = "returned" /\ ret = TRUE
        /\ ImplementedAsGemm(SwapRootOperands(hlo)) = Returned(TRUE)

\* C7 witness: a kOutput multiply fusion with the eligible dot at operand 1
\* and a parameter at operand 0 is classified true.
C7_Witness ==
    /\ ReturnedFrom("ImplementedAsGemm")
    /\ hlo.opcode = "kFusion"
    /\ hlo.fusion_kind = "kOutput"
    /\ hlo.fused_expression_root.opcode = "kMultiply"
    /\ RootOperand(hlo, 0).opcode = "kParameter"
    /\ IsEligibleProduct(RootOperand(hlo, 1))
    /\ ret = TRUE

BatchNormTargets ==
    {kCudnnBatchNormForwardInferenceCallTarget,
     kCudnnBatchNormForwardTrainingCallTarget,
     kCudnnBatchNormBackwardCallTarget}
ConvTargets ==
    {kCudnnConvForwardCallTarget, kCudnnConvBackwardInputCallTarget,
     kCudnnConvBackwardFilterCallTarget,
     kCudnnConvBiasActivationForwardCallTarget}

\* C8: IsCustomCallToDnnBatchNorm is true exactly for a custom call whose
\* target equals one of the three batch-norm identifiers, and
\* IsCustomCallToDnnConvolution exactly for a custom call whose target
\* equals one of the four convolution identifiers; a convolution target is
\* no batch-norm target, and no node is classified as both.
C8_ExactTargetMatch ==
    /\ ReturnedFrom("IsCustomCallToDnnBatchNorm") =>
         /\ ret <=> /\ hlo.opcode = "kCustomCall"
                    /\ hlo.custom_call_target \in BatchNormTargets
         /\ ret => ~IsCustomCallToDnnConvolution(hlo)
    /\ ReturnedFrom("IsCustomCallToDnnConvolution") =>
         /\ ret <=> /\ hlo.opcode = "kCustomCall"
                    /\ hlo.custom_call_target \in ConvTargets
         /\ ret => ~IsCustomCallToDnnBatchNorm(hlo)

\* C8 witness: the convolution identifier followed by one blank is rejected
\* by the convolution predicate.
C8_Witness ==
    /\ ReturnedFrom("IsCustomCallToDnnConvolution")
    /\ hlo.opcode = "kCustomCall"
    /\ hlo.custom_call_target = "__cudnn$convForward "
    /\ ret = FALSE

\* C9: GetCudnnConvKind maps the four convolution identifiers to kForward,
\* kBackwardInput, kBackwardFilter and kForwardActivation, and returns an
\* error whose message ends in exactly the target for every other target.
C9_KindOrError ==
    ReturnedFrom("GetCudnnConvKind") =>
        LET target == hlo.custom_call_target
        IN  /\ target = kCudnnConvForwardCallTarget
                => ret = [ok |-> TRUE, kind |-> "kForward"]
            /\ target = kCudnnConvBackwardInputCallTarget
                => ret = [ok |-> TRUE, kind |-> "kBackwardInput"]
            /\ target = kCudnnConvBackwardFilterCallTarget
                => ret = [ok |-> TRUE, kind |-> "kBackwardFilter"]
            /\ target = kCudnnConvBiasActivationForwardCallTarget
                => ret = [ok |-> TRUE, kind |-> "kForwardActivation"]
            /\ target \notin ConvTargets
                => /\ ret.ok = FALSE
                   /\ DOMAIN ret = {"ok", "code", "message"}
                   /\ ret.message = "Unexpected call target: " \o target

\* C9 witness: the backward-input identifier followed by a newline yields
\* the error.
C9_Witness ==
    /\ ReturnedFrom("GetCudnnConvKind")
    /\ hlo.custom_call_target = "__cudnn$convBackwardInput\n"
    /\ ret.ok = FALSE

KeptDims(reduce) ==
    {d \in 0..(Len(reduce.operands[1].shape.dimensions) - 1) :
        \A k \in DOMAIN reduce.dimensions : reduce.dimensions[k] # d}
KeptSeq(reduce) ==
    AscendingSeq(KeptDims(reduce), Len(reduce.operands[1].shape.dimensions))

\* (a) the kept dimensions occupy an interval of positions of the input's
\* minor_to_major list.
KeptAreContiguous(reduce) ==
    LET m2m == reduce.operands[1].shape.layout.minor_to_major
        at == {k \in DOMAIN m2m : m2m[k] \in KeptDims(reduce)}
    IN  \A a \in at, b \in at : \A c \in a..b : c \in at

\* (b) the declared result is the input with the reduced dimensions taken
\* out: same element type, the kept extents in their original order, and
\* the kept dimensions in the relative minor-to-major order of the input.
ResultIsFilteredInput(reduce) ==
    LET input == reduce.operands[1].shape
        out == reduce.shape
        kept == KeptSeq(reduce)
        n == Len(kept)
        InPos(d) == CHOOSE k \in DOMAIN input.layout.minor_to_major :
                        input.layout.minor_to_major[k] = d
    IN  /\ out.element_type = input.element_type
        /\ Len(out.dimensions) = n
        /\ \A j \in 1..n : out.dimensions[j] = input.dimensions[kept[j] + 1]
        /\ Len(out.layout.minor_to_major) = n
        /\ \A k \in 1..n : out.layout.minor_to_major[k] \in 0..(n - 1)
        /\ \A a, b \in 1..n :
              a < b => InPos(kept[out.layout.minor_to_major[a] + 1])
                         < InPos(kept[out.layout.minor_to_major[b] + 1])

\* C5: IsReductionToVector returns true exactly when the node is a reduce,
\* (a) its kept dimensions are contiguous in the input's layout and (b) its
\* declared result shape is the input shape with the reduced dimensions
\* filtered out; a node of another opcode gives false.
C5_ReductionIff ==
    ReturnedFrom("IsReductionToVector") =>
        (ret <=> /\ hlo.opcode = "kReduce"
                 /\ KeptAreContiguous(hlo)
                 /\ ResultIsFilteredInput(hlo))

\* C5 witness: the two conditions are independent.  IsReductionToVector
\* returned false on f32[2,3,2] in the default layout reduced over dimension
\* 1 with the matching result f32[2,2], where (b) holds and (a) fails; and
\* some reduce node satisfies (a), fails (b) and is rejected as well.
C5_Witness ==
    /\ ReturnedFrom("IsReductionToVector")
    /\ hlo.opcode = "kReduce"
    /\ hlo.operands[1].shape = MakeShape("F32", <<2, 3, 2>>)
    /\ hlo.dimensions = <<1>>
    /\ hlo.shape = MakeShape("F32", <<2, 2>>)
    /\ ResultIsFilteredInput(hlo)
    /\ ~KeptAreContiguous(hlo)
    /\ ret = FALSE
    /\ \E d \in [1..2 -> ReduceExtents], l \in Layouts(2),
          D \in SUBSET (0..1), out \in ReduceResultShapes(MaxReduceRank) :
          LET n == ReduceNode(d, l, D, out)
          IN  /\ KeptAreContiguous(n)
              /\ ~ResultIsFilteredInput(n)
              /\ ~IsReductionToVector(n)


\* C4: when EmitFullWarpShuffleDown has returned, every lane whose target
\* lane (its own index plus the offset) lies inside the group holds exactly
\* the bit pattern the target lane held in `value`, for every width and
\* type of the value.
C4_ShuffleIsWholePatternExchange ==
    ReturnedFrom("EmitFullWarpShuffleDown") =>
        \A l \in Lanes :
            l + offset < GroupSize =>
                /\ Len(ret[l]) = value_type.bit_width
                /\ \A b \in 1..value_type.bit_width :
                      ret[l][b] = value[l + offset][b]

\* C4 witness: a 128-bit value went through the segment loop with a
\* non-zero offset, and lane 0 received a pattern different from its own
\* whose four segments are not all alike.
C4_Witness ==
    /\ ReturnedFrom("EmitFullWarpShuffleDown")
    /\ value_type.bit_width = 128
    /\ offset = 1
    /\ Len(calls) = 4
    /\ ret[0] = value[1]
    /\ value[1] # value[0]
    /\ SubSeq(value[1], 1, 32) # SubSeq(value[1], 33, 64)
    /\ SubSeq(value[1], 97, 128) # Zeros(32)


\* C11: the predicate IsBlock0Thread0 emits is true in the lane with thread
\* index 0 and block index 0 and false in every other lane of the grid, so
\* once every lane has evaluated it exactly one lane holds true.
C11_OnlyLaneZero ==
    /\ \A lane \in DOMAIN lane_pred :
          lane_pred[lane] = (lane[1] = 0 /\ lane[2] = 0)
    /\ (fn = "IsBlock0Thread0" /\ DOMAIN lane_pred = GridLanes) =>
          Cardinality({lane \in GridLanes : lane_pred[lane]}) = 1

\* C11 witness: every lane of a grid with at least 2 threads per block and
\* at least 2 blocks has evaluated the predicate; lane <<0, 0>> got true and
\* the lanes sharing only the thread index or only the block index false.
C11_Witness ==
    /\ fn = "IsBlock0Thread0"
    /\ grid.threads_per_block >= 2
    /\ grid.num_blocks >= 2
    /\ DOMAIN lane_pred = GridLanes
    /\ lane_pred[<<0, 0>>]
    /\ ~lane_pred[<<0, 1>>]
    /\ ~lane_pred[<<1, 0>>]

\* C12, as stated: after any sequence of EmitDeviceFunctionCall invocations
\* the module holds at most one declaration per routine name, and every
\* invocation has appended exactly one call instruction with the supplied
\* arguments and returned its handle (none has ended the process).
C12_AsStated ==
    fn = "EmitDeviceFunctionCall" =>
        /\ \A f \in module, g \in module : f.name = g.name => f = g
        /\ pc = "returned"
        /\ Len(calls) = Len(requests)
        /\ \A k \in 1..Len(requests) :
              /\ k <= Len(calls)
              /\ calls[k].callee = requests[k].callee_name
              /\ calls[k].operands = requests[k].operands
        /\ ret = Len(calls)

ClassificationOps ==
    {"ImplementedAsGemm", "ImplementedAsLibraryCall",
     "IsCustomCallToDnnBatchNorm", "IsCustomCallToDnnConvolution",
     "IsReductionToVector"}

\* C13, as stated: every classification operation ends, on every node, with
\* true or false and never in an abort.
C13_AsStated ==
    (pc # "idle" /\ fn \in ClassificationOps) =>
        /\ pc = "returned"
        /\ ret \in BOOLEAN

\* The dot whose contracting extents the GEMM classification compares: the
\* node itself, or the dot the fused search settles on; and whether it
\* passes the shape test with unequal contracting extents.
MismatchedDot(dot) ==
    /\ DotShapesValid(dot)
    /\ LhsContractingExtent(dot) # RhsContractingExtent(dot)
HitsContractingCheck(h) ==
    \/ h.opcode = "kDot" /\ MismatchedDot(h)
    \/ /\ h.opcode = "kFusion"
       /\ FusedDotExamined(h)
       /\ MismatchedDot(ExaminedOperand(h))

\* C13 amended: every classification operation ends with true or false on
\* every node, except that ImplementedAsGemm and ImplementedAsLibraryCall
\* abort, returning nothing, exactly on a dot node (or an output fusion
\* whose examined root operand is a dot) whose shapes pass the shape test
\* while its contracting extents differ.
C13_TotalExceptContractingCheck ==
    (pc # "idle" /\ fn \in ClassificationOps) =>
        IF /\ fn \in {"ImplementedAsGemm", "ImplementedAsLibraryCall"}
           /\ HitsContractingCheck(hlo)
        THEN pc = "aborted"
        ELSE pc = "returned" /\ ret \in BOOLEAN

\* C13 witness: ImplementedAsLibraryCall aborted on an output fusion whose
\* fused dot has valid shapes and contracting extents 3 and 2.
C13_Witness ==
    /\ fn = "ImplementedAsLibraryCall"
    /\ pc = "aborted"
    /\ hlo.opcode = "kFusion"
    /\ LhsContractingExtent(ExaminedOperand(hlo)) = 3
    /\ RhsContractingExtent(ExaminedOperand(hlo)) = 2

\* C14: when EmitFullWarpShuffleDown has returned for a 32-bit float, it has
\* emitted exactly one call, to the cross-lane read, on the bits of the
\* value and the offset; the segment loop was never entered (no vector x
\* was built, the loop counter was never advanced); and what it returned
\* is, bit for bit, what that one call gave: 32 bits per lane, those of
\* the lane offset positions up wherever that lane exists.
C14_FastPathOneCall ==
    (ReturnedFrom("EmitFullWarpShuffleDown")
       /\ value_type = [kind |-> "float", bit_width |-> 32]) =>
        /\ Len(calls) = 1
        /\ calls[1] = [callee |-> "__ockl_readuplane_i32",
                       operands |-> <<value, offset>>]
        /\ x = <<>>
        /\ i = 0
        /\ \A l \in Lanes :
              /\ Len(ret[l]) = 32
              /\ l + offset < GroupSize => ret[l] = value[l + offset]

\* C14 witness: a float went through the fast path with offset 1 and lane 0
\* received the pattern of lane 1, different from its own.
C14_Witness ==
    /\ ReturnedFrom("EmitFullWarpShuffleDown")
    /\ value_type = [kind |-> "float", bit_width |-> 32]
    /\ offset = 1
    /\ Len(calls) = 1
    /\ ret[0] = value[1]
    /\ value[1] # value[0]

\* The least number of 32-bit segments that cover w bits, and what segment
\* j of lane l holds before any exchange: bits 32j .. 32j+31 of the value,
\* zero beyond its width.
CeilSegments(w) ==
    CHOOSE n \in 1..w : 32 * n >= w /\ 32 * (n - 1) < w
OriginalSegment(l, j) ==
    [b \in 1..32 |->
        IF 32 * j + b <= value_type.bit_width THEN value[l][32 * j + b]
        ELSE 0]
TakesSegmentLoop ==
    /\ fn = "EmitFullWarpShuffleDown"
    /\ value_type # [kind |-> "float", bit_width |-> 32]

\* State part of C15: with N = ceil(W/32), the k-th call emitted is the
\* cross-lane read on the original content of segment k-1 and the offset;
\* after i iterations exactly i calls are emitted, i never exceeds N, the
\* segments i..N-1 still hold their original content, and the function
\* returns with exactly N calls emitted.
C15_CallsInOrder ==
    TakesSegmentLoop =>
        LET N == CeilSegments(value_type.bit_width)
        IN  /\ pc \in {"loop", "returned"}
            /\ i <= N
            /\ Len(calls) = i
            /\ pc = "returned" => Len(calls) = N
            /\ \A k \in 1..Len(calls) :
                  calls[k] =
                      [callee |-> "__ockl_readuplane_i32",
                       operands |->
                           <<[l \in Lanes |-> OriginalSegment(l, k - 1)],
                             offset>>]
            /\ \A l \in Lanes :
                  /\ Len(x[l]) = N
                  /\ \A j \in i..(N - 1) :
                        x[l][j + 1] = OriginalSegment(l, j)

\* Step part of C15: iteration i emits one call, writes its result (the
\* content of segment i in the lane offset positions up, where that lane
\* exists) to segment i and leaves every other segment as it was.
C15_StepWritesSegmentOnly ==
    (pc = "loop" /\ i' = i + 1) =>
        /\ Len(calls') = Len(calls) + 1
        /\ \A l \in Lanes :
              /\ \A j \in 0..(Len(x[l]) - 1) :
                    j # i => x'[l][j + 1] = x[l][j + 1]
              /\ l + offset < GroupSize => x'[l][i + 1] = x[l + offset][i + 1]

\* C15: for a value that does not take the fast path, with bit width W and
\* N = ceil(W/32): the calls are emitted one per segment, in increasing
\* segment order, each on the original content of its segment; each
\* iteration changes its own segment only; and the segment loop, once
\* entered, ends with the function returning after exactly N calls.
C15_SegmentLoop ==
    /\ []C15_CallsInOrder
    /\ [][C15_StepWritesSegmentOnly]_<<pc, i, x, calls>>
    /\ (TakesSegmentLoop /\ pc = "loop") ~> (pc = "returned")

\* C15 witness: a 48-bit integer (N = 2) was shuffled with offset 1; two
\* calls were emitted, the second on the zero-extended upper 16 bits, and
\* lane 0 received the pattern of lane 1, different from its own.
C15_Witness ==
    /\ ReturnedFrom("EmitFullWarpShuffleDown")
    /\ value_type = [kind |-> "integer", bit_width |-> 48]
    /\ offset = 1
    /\ Len(calls) = 2
    /\ calls[2].operands[1][1] = SubSeq(value[1], 33, 48) \o Zeros(16)
    /\ ret[0] = value[1]
    /\ value[1] # value[0]

\* C16: with offset 0 every lane reads its own segments, and then
\* zero-extending a W-bit pattern to 32 * N bits, splitting it into
\* N = ceil(W/32) segments, exchanging every segment, reassembling and
\* truncating gives back the W bits of the pattern, for W a multiple of 32
\* or not and for integer and floating-point types alike; while the loop
\* runs, the vector holds 32 * N bits whose low W bits are the pattern.
C16_RoundTrip ==
    (TakesSegmentLoop /\ offset = 0) =>
        \A l \in Lanes :
            /\ pc = "loop" =>
                  /\ Len(BitCastToInt(x[l]))
                        = 32 * CeilSegments(value_type.bit_width)
                  /\ \A b \in 1..value_type.bit_width :
                        BitCastToInt(x[l])[b] = value[l][b]
            /\ pc = "returned" =>
                  /\ Len(ret[l]) = value_type.bit_width
                  /\ \A b \in 1..value_type.bit_width :
                        ret[l][b] = value[l][b]

\* C16 witness: a 64-bit double whose two segments differ went through the
\* two-segment loop with offset 0 and came back unchanged.
C16_Witness ==
    /\ ReturnedFrom("EmitFullWarpShuffleDown")
    /\ value_type = [kind |-> "double", bit_width |-> 64]
    /\ offset = 0
    /\ Len(calls) = 2
    /\ SubSeq(value[0], 1, 32) # SubSeq(value[0], 33, 64)
    /\ ret = value

\* How the call in the current state ended, and what it is to be decided by
\* a dot: abort when the dot passes the shape test with unequal contracting
\* extents, otherwise the value of the shape test.
Outcome == IF pc = "aborted" THEN CheckFailed ELSE Returned(ret)
DecidedBy(dot) ==
    IF MismatchedDot(dot) THEN pc = "aborted"
    ELSE pc = "returned" /\ ret = DotShapesValid(dot)
WithRootOperand1(fusion, node) ==
    [fusion EXCEPT !.fused_expression_root.operands[2] = node]

\* C19: in the fused search (an output fusion with root multiply or add),
\* when root operand 0 is a dot the call is decided by operand 0 and ends
\* the same way whatever root operand 1 is; root operand 1 decides only
\* when operand 0 is no dot, and with no dot operand the result is false.
C19_Operand0First ==
    (Called("ImplementedAsGemm") /\ hlo.opcode = "kFusion"
       /\ hlo.fusion_kind = "kOutput" /\ RootIsMultiplyOrAdd(hlo)) =>
        IF RootOperand(hlo, 0).opcode = "kDot"
        THEN /\ DecidedBy(RootOperand(hlo, 0))
             /\ \A node \in FusedOperands :
                   ImplementedAsGemm(WithRootOperand1(hlo, node)) = Outcome
        ELSE IF RootOperand(hlo, 1).opcode = "kDot"
        THEN DecidedBy(RootOperand(hlo, 1))
        ELSE pc = "returned" /\ ret = FALSE

\* C19 witness: root operand 0 is an eligible dot and root operand 1 a dot
\* on which the classification would abort; the call returned true.
C19_Witness ==
    /\ ReturnedFrom("ImplementedAsGemm")
    /\ hlo.opcode = "kFusion"
    /\ hlo.fusion_kind = "kOutput"
    /\ RootIsMultiplyOrAdd(hlo)
    /\ RootOperand(hlo, 0).opcode = "kDot"
    /\ DotShapesValid(RootOperand(hlo, 0))
    /\ RootOperand(hlo, 1).opcode = "kDot"
    /\ MismatchedDot(RootOperand(hlo, 1))
    /\ ret = TRUE

\* The instructions other than address computations, in emission order.
PrintfMainInsts == SelectSeq(insts, LAMBDA inst : inst.op # "gep")

\* What EmitPrintf is to have emitted once it returned: one allocation of
\* an aggregate with the arguments' types as fields, then the store of
\* argument k to field k of that buffer for every k in order, then one call
\* of vprintf on the format string and the buffer.
PrintfEmittedInOrder ==
    LET n == Len(arguments)
        seq == PrintfMainInsts
    IN  /\ Len(seq) = n + 2
        /\ seq[1] = [op |-> "alloca",
                     type |-> [struct |-> [k \in 1..n |->
                                              arguments[k].type]]]
        /\ insts[1] = seq[1]
        /\ \A k \in 1..n :
              /\ seq[k + 1].op = "store"
              /\ seq[k + 1].value = arguments[k]
              /\ insts[seq[k + 1].ptr] =
                     [op |-> "gep", ptr |-> 1, indices |-> <<0, k - 1>>]
        /\ seq[n + 2] = [op |-> "call", callee |-> "vprintf",
                         operands |-> <<[global_string |-> fmt], 1>>]

\* C20, as stated: for an argument list of any length n, 0 included,
\* EmitPrintf ends by returning, having emitted the allocation, the n
\* stores and the one call in this order.
C20_AsStated ==
    fn = "EmitPrintf" =>
        /\ pc # "aborted"
        /\ pc = "returned" => PrintfEmittedInOrder

RECURSIVE NeverSaved(_)
NeverSaved(k) ==
    IF k = 0 THEN [i |-> 0]
    ELSE IteratorGetNext(NeverSaved(k - 1), <<>>).iterator

C21_OnlyOutputFusions ==
    (Called("ImplementedAsGemm") /\ hlo.opcode = "kFusion") =>
        /\ hlo.fusion_kind # "kOutput" => pc = "returned" /\ ret = FALSE
        /\ (pc = "returned" /\ ret = TRUE) => hlo.fusion_kind = "kOutput"

\* C21 witness: a loop fusion with root add whose operand 0 is an eligible
\* dot is classified false.
C21_Witness ==
    /\ ReturnedFrom("ImplementedAsGemm")
    /\ hlo.opcode = "kFusion"
    /\ hlo.fusion_kind = "kLoop"
    /\ hlo.fused_expression_root.opcode = "kAdd"
    /\ IsEligibleProduct(RootOperand(hlo, 0))
    /\ ret = FALSE

CustomCallTo(target) ==
    [opcode |-> "kCustomCall", custom_call_target |-> target]

\* C22: on every custom-call node GetCudnnConvKind returns a kind, not an
\* error, exactly when IsCustomCallToDnnConvolution is true of the node,
\* seen from a call of either function; and the kind returned for one of
\* the four convolution identifiers is returned for none of the other
\* three.
C22_PredicateAgreesWithKind ==
    /\ ReturnedFrom("GetCudnnConvKind") =>
         /\ ret.ok <=> IsCustomCallToDnnConvolution(hlo)
         /\ ret.ok =>
              /\ DOMAIN ret = {"ok", "kind"}
              /\ \A t \in ConvTargets \ {hlo.custom_call_target} :
                    /\ GetCudnnConvKind(CustomCallTo(t)).ok
                    /\ GetCudnnConvKind(CustomCallTo(t)).kind # ret.kind
    /\ (ReturnedFrom("IsCustomCallToDnnConvolution")
          /\ hlo.opcode = "kCustomCall") =>
         (ret <=> GetCudnnConvKind(hlo).ok)

\* C22 witness: the bias-activation identifier is accepted by the
\* predicate and converted to a kind.
C22_Witness ==
    /\ ReturnedFrom("GetCudnnConvKind")
    /\ hlo.custom_call_target = kCudnnConvBiasActivationForwardCallTarget
    /\ IsCustomCallToDnnConvolution(hlo)
    /\ ret.ok
    /\ ret.kind = "kForwardActivation"

=============================================================================
